---- MODULE Spec2Model ----
(***************************************************************************)
(* Model of the HIOMAP IPMI command provider (hiomap.cpp): the session     *)
(* context (sequence byte, BMC event bitmask), the command dispatcher with *)
(* its ten handlers, the errno translator and the two D-Bus notification   *)
(* handlers.  One action per entry point; every action records what the    *)
(* call observed and produced in the variable "last".                      *)
(***************************************************************************)
EXTENDS Integers, Sequences, FiniteSets, TLC

VARIABLES
    seq,        \* ctx->seq
    bmc_events, \* ctx->bmc_events
    last,       \* what the running callback was given and produced
    prev,       \* history: whether the callback before this one was a command
                \* whose handler failed, and the sequence byte it carried
    session,    \* history: whether no command has been dispatched yet, and the
                \* sequence byte of the latest envelope that passed the checks
    handed,     \* whether ipmi_hiomap_event_response has been handed to
                \* ipmid_send_cmd_to_host yet
    applied     \* history: the event bits left by applying, one after the
                \* other in the order the callbacks ran, every Acknowledge
                \* clear and every notification update so far

vars == <<seq, bmc_events, last, prev, session, handed, applied>>

(***************************************************************************)
(* Bounds of the model                                                     *)
(***************************************************************************)
MaxSeq == 2   \* sequence bytes are drawn from 0..MaxSeq
MaxLen == 6   \* envelopes are 0..MaxLen bytes long (2 header + 4 payload)
MaxCmd == 12  \* command bytes are drawn from 0..MaxCmd and 255
MaxErrno == 120  \* the translator is applied to every cause in -2..MaxErrno

(***************************************************************************)
(* IPMI completion codes used by hiomap.cpp                                *)
(***************************************************************************)
IPMI_CC_OK == 0
IPMI_CC_BUSY == 192
IPMI_CC_INVALID == 193
IPMI_CC_TIMEOUT == 195
IPMI_CC_OUT_OF_SPACE == 196
IPMI_CC_REQ_DATA_LEN_INVALID == 199
IPMI_CC_PARM_OUT_OF_RANGE == 201
IPMI_CC_SENSOR_INVALID == 203
IPMI_CC_INVALID_FIELD_REQUEST == 204
IPMI_CC_INSUFFICIENT_PRIVILEGE == 212
IPMI_CC_UNSPECIFIED_ERROR == 255

(***************************************************************************)
(* errno values named in errno_cc_map (Linux)                              *)
(***************************************************************************)
EPERM == 1
EACCES == 13
EBUSY == 16
ENODEV == 19
EINVAL == 22
ENOSPC == 28
ENOTSUP == 95
ETIMEDOUT == 110

(***************************************************************************)
(* Event bits and the name -> bit table built at registration              *)
(***************************************************************************)
BMC_EVENT_DAEMON_READY == 128
BMC_EVENT_FLASH_CTRL_LOST == 64
BMC_EVENT_WINDOW_RESET == 2
BMC_EVENT_PROTOCOL_RESET == 1

IPMI_CMD_HIOMAP_EVENT == 15

HIOMAPD_IFACE == "xyz.openbmc_project.Hiomapd.Protocol"
HIOMAPD_IFACE_V2 == "xyz.openbmc_project.Hiomapd.Protocol.V2"

\* event_lookup with WindowReset on a bit outside the four event bits
event_lookup_wide ==
    [n \in {"DaemonReady", "FlashControlLost", "WindowReset", "ProtocolReset"} |->
        CASE n = "DaemonReady" -> BMC_EVENT_DAEMON_READY
          [] n = "FlashControlLost" -> BMC_EVENT_FLASH_CTRL_LOST
          [] n = "WindowReset" -> 2 * BMC_EVENT_WINDOW_RESET
          [] n = "ProtocolReset" -> BMC_EVENT_PROTOCOL_RESET]

event_lookup ==
    [n \in {"DaemonReady", "FlashControlLost", "WindowReset", "ProtocolReset"} |->
        CASE n = "DaemonReady" -> BMC_EVENT_DAEMON_READY
          [] n = "FlashControlLost" -> BMC_EVENT_FLASH_CTRL_LOST
          [] n = "WindowReset" -> BMC_EVENT_WINDOW_RESET
          [] n = "ProtocolReset" -> BMC_EVENT_PROTOCOL_RESET]

(***************************************************************************)
(* uint8_t arithmetic                                                      *)
(***************************************************************************)
RECURSIVE AndBits(_, _, _)
AndBits(a, b, n) ==
    IF n = 0 THEN 0
    ELSE (a % 2) * (b % 2) + 2 * AndBits(a \div 2, b \div 2, n - 1)

\* a & b on uint8_t operands
BitAnd(a, b) == AndBits(a % 256, b % 256, 8)
\* a | b on uint8_t operands
BitOr(a, b) == (a % 256) + (b % 256) - BitAnd(a, b)
\* the low byte of ~a
BitNot(a) == 255 - (a % 256)

(***************************************************************************)
(* Error translator                                                        *)
(***************************************************************************)
\* errno_cc_map with the statuses of ETIMEDOUT and ENOSPC exchanged
errno_cc_map_swapped ==
    << [err |-> 0, cc |-> IPMI_CC_OK],
       [err |-> EBUSY, cc |-> IPMI_CC_BUSY],
       [err |-> ENOTSUP, cc |-> IPMI_CC_INVALID],
       [err |-> ETIMEDOUT, cc |-> IPMI_CC_OUT_OF_SPACE],
       [err |-> ENOSPC, cc |-> IPMI_CC_TIMEOUT],
       [err |-> EINVAL, cc |-> IPMI_CC_PARM_OUT_OF_RANGE],
       [err |-> ENODEV, cc |-> IPMI_CC_SENSOR_INVALID],
       [err |-> EPERM, cc |-> IPMI_CC_INSUFFICIENT_PRIVILEGE],
       [err |-> EACCES, cc |-> IPMI_CC_INSUFFICIENT_PRIVILEGE],
       [err |-> -1, cc |-> IPMI_CC_UNSPECIFIED_ERROR] >>

errno_cc_map ==
    << [err |-> 0, cc |-> IPMI_CC_OK],
       [err |-> EBUSY, cc |-> IPMI_CC_BUSY],
       [err |-> ENOTSUP, cc |-> IPMI_CC_INVALID],
       [err |-> ETIMEDOUT, cc |-> IPMI_CC_TIMEOUT],
       [err |-> ENOSPC, cc |-> IPMI_CC_OUT_OF_SPACE],
       [err |-> EINVAL, cc |-> IPMI_CC_PARM_OUT_OF_RANGE],
       [err |-> ENODEV, cc |-> IPMI_CC_SENSOR_INVALID],
       [err |-> EPERM, cc |-> IPMI_CC_INSUFFICIENT_PRIVILEGE],
       [err |-> EACCES, cc |-> IPMI_CC_INSUFFICIENT_PRIVILEGE],
       [err |-> -1, cc |-> IPMI_CC_UNSPECIFIED_ERROR] >>

\* the while loop of hiomap_xlate_errno, entry = &errno_cc_map[i - 1]
RECURSIVE xlate_walk(_, _)
xlate_walk(i, err) ==
    IF errno_cc_map[i].err = err \/ errno_cc_map[i].err = -1
    THEN errno_cc_map[i].cc
    ELSE xlate_walk(i + 1, err)

hiomap_xlate_errno(err) == xlate_walk(1, err)

(***************************************************************************)
(* Backend RPC outcomes: the call returns, or throws SdBusError whose      *)
(* get_errno() is err.  sd-bus reports a failed call as a negative errno   *)
(* and the exception carries its absolute value, so err is a positive      *)
(* errno: one the table lists, or one it does not (EIO).                   *)
(***************************************************************************)
\* 5 is EIO, an errno the table does not list
Errnos == {EPERM, 5, EACCES, EBUSY, ENODEV, EINVAL, ENOSPC, ENOTSUP, ETIMEDOUT}

CallReturns == [threw |-> FALSE, err |-> 0]
Outcomes == {CallReturns} \cup {[threw |-> TRUE, err |-> e] : e \in Errnos}

(***************************************************************************)
(* Command handlers.  Each takes the event bitmask of the context, the     *)
(* payload after the 2-byte header, its length (data_len on entry) and     *)
(* the outcome of the backend call, and yields                             *)
(*   cc         the returned completion code                               *)
(*   data_len   data_len on return                                         *)
(*   rpcs       the backend method calls issued, in order                  *)
(*   bmc_events ctx->bmc_events on return                                  *)
(*   written    number of payload bytes put into the response buffer       *)
(***************************************************************************)
MethodCall(iface, method) == [iface |-> iface, method |-> method]

HandlerRet(cc, data_len, rpcs, events, written) ==
    [cc |-> cc, data_len |-> data_len, rpcs |-> rpcs, bmc_events |-> events,
     written |-> written]

hiomap_reset(events, flash_req, flash_len, rc) ==
    LET m == MethodCall(HIOMAPD_IFACE, "Reset") IN
    IF rc.threw
    THEN HandlerRet(hiomap_xlate_errno(rc.err), flash_len, <<m>>, events, 0)
    ELSE HandlerRet(IPMI_CC_OK, 0, <<m>>, events, 0)

hiomap_get_info(events, flash_req, flash_len, rc) ==
    IF flash_len < 1
    THEN HandlerRet(IPMI_CC_REQ_DATA_LEN_INVALID, flash_len, <<>>, events, 0)
    ELSE LET m == MethodCall(HIOMAPD_IFACE, "GetInfo") IN
         IF rc.threw
         THEN HandlerRet(hiomap_xlate_errno(rc.err), flash_len, <<m>>, events, 0)
         ELSE HandlerRet(IPMI_CC_OK, 4, <<m>>, events, 4)

hiomap_get_flash_info(events, flash_req, flash_len, rc) ==
    LET m == MethodCall(HIOMAPD_IFACE_V2, "GetFlashInfo") IN
    IF rc.threw
    THEN HandlerRet(hiomap_xlate_errno(rc.err), flash_len, <<m>>, events, 0)
    ELSE HandlerRet(IPMI_CC_OK, 4, <<m>>, events, 4)

\* hiomap_create_window requiring one payload byte more than it reads
hiomap_create_window_off_by_one(events, ro, flash_req, flash_len, rc) ==
    IF flash_len <= 4
    THEN HandlerRet(IPMI_CC_REQ_DATA_LEN_INVALID, flash_len, <<>>, events, 0)
    ELSE LET windowType == IF ro THEN "CreateReadWindow" ELSE "CreateWriteWindow"
             m == MethodCall(HIOMAPD_IFACE_V2, windowType)
         IN IF rc.threw
            THEN HandlerRet(hiomap_xlate_errno(rc.err), flash_len, <<m>>, events, 0)
            ELSE HandlerRet(IPMI_CC_OK, 6, <<m>>, events, 6)

hiomap_create_window(events, ro, flash_req, flash_len, rc) ==
    IF flash_len < 4
    THEN HandlerRet(IPMI_CC_REQ_DATA_LEN_INVALID, flash_len, <<>>, events, 0)
    ELSE LET windowType == IF ro THEN "CreateReadWindow" ELSE "CreateWriteWindow"
             m == MethodCall(HIOMAPD_IFACE_V2, windowType)
         IN IF rc.threw
            THEN HandlerRet(hiomap_xlate_errno(rc.err), flash_len, <<m>>, events, 0)
            ELSE HandlerRet(IPMI_CC_OK, 6, <<m>>, events, 6)

hiomap_create_read_window(events, flash_req, flash_len, rc) ==
    hiomap_create_window(events, TRUE, flash_req, flash_len, rc)

hiomap_create_write_window(events, flash_req, flash_len, rc) ==
    hiomap_create_window(events, FALSE, flash_req, flash_len, rc)

\* hiomap_close_window addressing the base interface
hiomap_close_window_base_iface(events, flash_req, flash_len, rc) ==
    IF flash_len < 1
    THEN HandlerRet(IPMI_CC_REQ_DATA_LEN_INVALID, flash_len, <<>>, events, 0)
    ELSE LET m == MethodCall(HIOMAPD_IFACE, "CloseWindow") IN
         IF rc.threw
         THEN HandlerRet(hiomap_xlate_errno(rc.err), flash_len, <<m>>, events, 0)
         ELSE HandlerRet(IPMI_CC_OK, 0, <<m>>, events, 0)

hiomap_close_window(events, flash_req, flash_len, rc) ==
    IF flash_len < 1
    THEN HandlerRet(IPMI_CC_REQ_DATA_LEN_INVALID, flash_len, <<>>, events, 0)
    ELSE LET m == MethodCall(HIOMAPD_IFACE_V2, "CloseWindow") IN
         IF rc.threw
         THEN HandlerRet(hiomap_xlate_errno(rc.err), flash_len, <<m>>, events, 0)
         ELSE HandlerRet(IPMI_CC_OK, 0, <<m>>, events, 0)

\* hiomap_mark_dirty calling the backend a second time when the call throws
hiomap_mark_dirty_retries(events, flash_req, flash_len, rc) ==
    IF flash_len < 4
    THEN HandlerRet(IPMI_CC_REQ_DATA_LEN_INVALID, flash_len, <<>>, events, 0)
    ELSE LET m == MethodCall(HIOMAPD_IFACE_V2, "MarkDirty") IN
         IF rc.threw
         THEN HandlerRet(hiomap_xlate_errno(rc.err), flash_len, <<m, m>>, events, 0)
         ELSE HandlerRet(IPMI_CC_OK, 0, <<m>>, events, 0)

hiomap_mark_dirty(events, flash_req, flash_len, rc) ==
    IF flash_len < 4
    THEN HandlerRet(IPMI_CC_REQ_DATA_LEN_INVALID, flash_len, <<>>, events, 0)
    ELSE LET m == MethodCall(HIOMAPD_IFACE_V2, "MarkDirty") IN
         IF rc.threw
         THEN HandlerRet(hiomap_xlate_errno(rc.err), flash_len, <<m>>, events, 0)
         ELSE HandlerRet(IPMI_CC_OK, 0, <<m>>, events, 0)

\* hiomap_flush without "*data_len = 0" after the call
hiomap_flush_keeps_len(events, flash_req, flash_len, rc) ==
    LET m == MethodCall(HIOMAPD_IFACE_V2, "Flush") IN
    IF rc.threw
    THEN HandlerRet(hiomap_xlate_errno(rc.err), flash_len, <<m>>, events, 0)
    ELSE HandlerRet(IPMI_CC_OK, flash_len, <<m>>, events, 0)

hiomap_flush(events, flash_req, flash_len, rc) ==
    LET m == MethodCall(HIOMAPD_IFACE_V2, "Flush") IN
    IF rc.threw
    THEN HandlerRet(hiomap_xlate_errno(rc.err), flash_len, <<m>>, events, 0)
    ELSE HandlerRet(IPMI_CC_OK, 0, <<m>>, events, 0)

\* hiomap_ack updating the cache before the backend call is known to succeed
hiomap_ack_clears_first(events, flash_req, flash_len, rc) ==
    IF flash_len < 1
    THEN HandlerRet(IPMI_CC_REQ_DATA_LEN_INVALID, flash_len, <<>>, events, 0)
    ELSE LET m == MethodCall(HIOMAPD_IFACE_V2, "Ack")
             acked == flash_req[1]
             cleared == BitAnd(events, BitNot(acked))
         IN IF rc.threw
            THEN HandlerRet(hiomap_xlate_errno(rc.err), flash_len, <<m>>, cleared, 0)
            ELSE HandlerRet(IPMI_CC_OK, 0, <<m>>, cleared, 0)

\* hiomap_ack dropping every pending bit once the backend call succeeds
hiomap_ack_clears_all(events, flash_req, flash_len, rc) ==
    IF flash_len < 1
    THEN HandlerRet(IPMI_CC_REQ_DATA_LEN_INVALID, flash_len, <<>>, events, 0)
    ELSE LET m == MethodCall(HIOMAPD_IFACE_V2, "Ack")
         IN IF rc.threw
            THEN HandlerRet(hiomap_xlate_errno(rc.err), flash_len, <<m>>, events, 0)
            ELSE HandlerRet(IPMI_CC_OK, 0, <<m>>, 0, 0)

hiomap_ack(events, flash_req, flash_len, rc) ==
    IF flash_len < 1
    THEN HandlerRet(IPMI_CC_REQ_DATA_LEN_INVALID, flash_len, <<>>, events, 0)
    ELSE LET m == MethodCall(HIOMAPD_IFACE_V2, "Ack")
             acked == flash_req[1]
         IN IF rc.threw
            THEN HandlerRet(hiomap_xlate_errno(rc.err), flash_len, <<m>>, events, 0)
            ELSE HandlerRet(IPMI_CC_OK, 0, <<m>>,
                            BitAnd(events, BitNot(acked)), 0)

hiomap_erase(events, flash_req, flash_len, rc) ==
    IF flash_len < 4
    THEN HandlerRet(IPMI_CC_REQ_DATA_LEN_INVALID, flash_len, <<>>, events, 0)
    ELSE LET m == MethodCall(HIOMAPD_IFACE_V2, "Erase") IN
         IF rc.threw
         THEN HandlerRet(hiomap_xlate_errno(rc.err), flash_len, <<m>>, events, 0)
         ELSE HandlerRet(IPMI_CC_OK, 0, <<m>>, events, 0)

HIOMAP_C_RESET == 1
HIOMAP_C_GET_INFO == 2
HIOMAP_C_GET_FLASH_INFO == 3
HIOMAP_C_CREATE_READ_WINDOW == 4
HIOMAP_C_CLOSE_WINDOW == 5
HIOMAP_C_CREATE_WRITE_WINDOW == 6
HIOMAP_C_MARK_DIRTY == 7
HIOMAP_C_FLUSH == 8
HIOMAP_C_ACK == 9
HIOMAP_C_ERASE == 10

\* number of slots of hiomap_commands[], slot 0 included
ARRAY_SIZE_hiomap_commands == 11

\* hiomap_commands[cmd](flash_req, flash_resp, &flash_len, context)
hiomap_commands(cmd, events, flash_req, flash_len, rc) ==
    CASE cmd = HIOMAP_C_RESET -> hiomap_reset(events, flash_req, flash_len, rc)
      [] cmd = HIOMAP_C_GET_INFO -> hiomap_get_info(events, flash_req, flash_len, rc)
      [] cmd = HIOMAP_C_GET_FLASH_INFO ->
            hiomap_get_flash_info(events, flash_req, flash_len, rc)
      [] cmd = HIOMAP_C_CREATE_READ_WINDOW ->
            hiomap_create_read_window(events, flash_req, flash_len, rc)
      [] cmd = HIOMAP_C_CLOSE_WINDOW ->
            hiomap_close_window(events, flash_req, flash_len, rc)
      [] cmd = HIOMAP_C_CREATE_WRITE_WINDOW ->
            hiomap_create_write_window(events, flash_req, flash_len, rc)
      [] cmd = HIOMAP_C_MARK_DIRTY -> hiomap_mark_dirty(events, flash_req, flash_len, rc)
      [] cmd = HIOMAP_C_FLUSH -> hiomap_flush(events, flash_req, flash_len, rc)
      [] cmd = HIOMAP_C_ACK -> hiomap_ack(events, flash_req, flash_len, rc)
      [] cmd = HIOMAP_C_ERASE -> hiomap_erase(events, flash_req, flash_len, rc)

(***************************************************************************)
(* Dispatcher.  A request is the buffer handed in by the IPMI daemon and   *)
(* the length data_len of the envelope in it; bytes of the buffer at or    *)
(* beyond data_len are whatever the buffer holds.                          *)
(***************************************************************************)
\* if (*data_len < 2)
frame_too_short(data_len) == data_len < 2

\* if (hiomap_cmd == 0 || hiomap_cmd > ARRAY_SIZE(hiomap_commands) - 1)
command_out_of_range(hiomap_cmd) ==
    hiomap_cmd = 0 \/ hiomap_cmd > ARRAY_SIZE_hiomap_commands - 1

\* is_unversioned with Erase exempted from the sequence check as well
is_unversioned_with_erase(hiomap_cmd) ==
    hiomap_cmd = HIOMAP_C_RESET \/ hiomap_cmd = HIOMAP_C_GET_INFO
        \/ hiomap_cmd = HIOMAP_C_ACK \/ hiomap_cmd = HIOMAP_C_ERASE

\* is_unversioned with Acknowledge left out
is_unversioned_without_ack(hiomap_cmd) ==
    hiomap_cmd = HIOMAP_C_RESET \/ hiomap_cmd = HIOMAP_C_GET_INFO

is_unversioned(hiomap_cmd) ==
    hiomap_cmd = HIOMAP_C_RESET \/ hiomap_cmd = HIOMAP_C_GET_INFO
        \/ hiomap_cmd = HIOMAP_C_ACK

\* if (!is_unversioned && ctx->seq == ipmi_req[1])
sequence_rejected(ctx_seq, hiomap_cmd, req_seq) ==
    ~is_unversioned(hiomap_cmd) /\ ctx_seq = req_seq

\* the result of a hiomap_dispatch call:
\*   cc, data_len  returned status and response length
\*   seq, bmc_events  the context on return
\*   rpcs          backend calls issued
\*   handler       command id whose handler ran, 0 if none ran
\*   resp          the header bytes written at ipmi_resp[0..1], <<>> if none
\*   written       payload bytes written at ipmi_resp[2..]
DispatchRet(cc, data_len, s, events, rpcs, handler, resp, written) ==
    [cc |-> cc, data_len |-> data_len, seq |-> s, bmc_events |-> events,
     rpcs |-> rpcs, handler |-> handler, resp |-> resp, written |-> written]

\* an early return of hiomap_dispatch: *data_len = 0; return cc;
early_return(ctx, cc) ==
    DispatchRet(cc, 0, ctx.seq, ctx.bmc_events, <<>>, 0, <<>>, 0)

\* commit_and_handle storing the sequence only when the handler succeeds
commit_on_success(ctx, request, rc) ==
    LET hiomap_cmd == request.buf[1]
        flash_req == SubSeq(request.buf, 3, Len(request.buf))
        flash_len == request.data_len - 2
        h == hiomap_commands(hiomap_cmd, ctx.bmc_events, flash_req, flash_len, rc)
    IN IF h.cc # IPMI_CC_OK
       THEN DispatchRet(h.cc, 0, ctx.seq, h.bmc_events, h.rpcs, hiomap_cmd,
                        <<>>, h.written)
       ELSE DispatchRet(h.cc, h.data_len + 2, request.buf[2], h.bmc_events, h.rpcs,
                        hiomap_cmd, <<hiomap_cmd, request.buf[2]>>, h.written)

\* commit_and_handle without "*data_len = 0" on the handler's failure
commit_and_handle_keeps_len(ctx, request, rc) ==
    LET hiomap_cmd == request.buf[1]
        ctx_seq == request.buf[2]
        flash_req == SubSeq(request.buf, 3, Len(request.buf))
        flash_len == request.data_len - 2
        h == hiomap_commands(hiomap_cmd, ctx.bmc_events, flash_req, flash_len, rc)
    IN IF h.cc # IPMI_CC_OK
       THEN DispatchRet(h.cc, h.data_len, ctx_seq, h.bmc_events, h.rpcs, hiomap_cmd,
                        <<>>, h.written)
       ELSE DispatchRet(h.cc, h.data_len + 2, ctx_seq, h.bmc_events, h.rpcs,
                        hiomap_cmd, <<hiomap_cmd, ctx_seq>>, h.written)

\* commit_and_handle populating the response header before the handler runs
commit_and_handle_header_first(ctx, request, rc) ==
    LET hiomap_cmd == request.buf[1]
        ctx_seq == request.buf[2]
        flash_req == SubSeq(request.buf, 3, Len(request.buf))
        flash_len == request.data_len - 2
        h == hiomap_commands(hiomap_cmd, ctx.bmc_events, flash_req, flash_len, rc)
    IN IF h.cc # IPMI_CC_OK
       THEN DispatchRet(h.cc, 0, ctx_seq, h.bmc_events, h.rpcs, hiomap_cmd,
                        <<hiomap_cmd, ctx_seq>>, h.written)
       ELSE DispatchRet(h.cc, h.data_len + 2, ctx_seq, h.bmc_events, h.rpcs,
                        hiomap_cmd, <<hiomap_cmd, ctx_seq>>, h.written)

\* hiomap_dispatch from the sequence commit on
commit_and_handle(ctx, request, rc) ==
    LET hiomap_cmd == request.buf[1]
        ctx_seq == request.buf[2]
        flash_req == SubSeq(request.buf, 3, Len(request.buf))
        flash_len == request.data_len - 2
        h == hiomap_commands(hiomap_cmd, ctx.bmc_events, flash_req, flash_len, rc)
    IN IF h.cc # IPMI_CC_OK
       THEN DispatchRet(h.cc, 0, ctx_seq, h.bmc_events, h.rpcs, hiomap_cmd,
                        <<>>, h.written)
       ELSE DispatchRet(h.cc, h.data_len + 2, ctx_seq, h.bmc_events, h.rpcs,
                        hiomap_cmd, <<hiomap_cmd, ctx_seq>>, h.written)

\* hiomap_dispatch with the sequence check ahead of the command lookup
dispatch_sequence_first(ctx, request, rc) ==
    IF frame_too_short(request.data_len)
    THEN early_return(ctx, IPMI_CC_REQ_DATA_LEN_INVALID)
    ELSE IF sequence_rejected(ctx.seq, request.buf[1], request.buf[2])
    THEN early_return(ctx, IPMI_CC_INVALID_FIELD_REQUEST)
    ELSE IF command_out_of_range(request.buf[1])
    THEN early_return(ctx, IPMI_CC_PARM_OUT_OF_RANGE)
    ELSE commit_and_handle(ctx, request, rc)

\* hiomap_dispatch with the command lookup ahead of the frame check
dispatch_lookup_first(ctx, request, rc) ==
    IF command_out_of_range(request.buf[1])
    THEN early_return(ctx, IPMI_CC_PARM_OUT_OF_RANGE)
    ELSE IF frame_too_short(request.data_len)
    THEN early_return(ctx, IPMI_CC_REQ_DATA_LEN_INVALID)
    ELSE IF sequence_rejected(ctx.seq, request.buf[1], request.buf[2])
    THEN early_return(ctx, IPMI_CC_INVALID_FIELD_REQUEST)
    ELSE commit_and_handle(ctx, request, rc)

hiomap_dispatch(ctx, request, rc) ==
    IF frame_too_short(request.data_len)
    THEN early_return(ctx, IPMI_CC_REQ_DATA_LEN_INVALID)
    ELSE IF command_out_of_range(request.buf[1])
    THEN early_return(ctx, IPMI_CC_PARM_OUT_OF_RANGE)
    ELSE IF sequence_rejected(ctx.seq, request.buf[1], request.buf[2])
    THEN early_return(ctx, IPMI_CC_INVALID_FIELD_REQUEST)
    ELSE commit_and_handle(ctx, request, rc)

(***************************************************************************)
(* Notification handlers                                                   *)
(***************************************************************************)
\* ipmid_send_cmd_to_host(make_tuple(make_pair(IPMI_CMD_HIOMAP_EVENT, events), ...))
HostCmd(events) == [cmd |-> IPMI_CMD_HIOMAP_EVENT, data |-> events]

NotifyRet(events, sent) == [bmc_events |-> events, sent |-> sent]

\* the property names of a message, in the key order of std::map<std::string, ...>
NameOrder ==
    <<"DaemonReady", "FlashControlLost", "ProtocolReset", "Unknown", "WindowReset">>

\* property_apply that sets on true and does nothing on false
property_apply_set_only(events, mask, value) ==
    IF value THEN BitOr(events, mask) ELSE events

\* one mask update of the loop of hiomap_handle_property_update
property_apply(events, mask, value) ==
    IF value THEN BitOr(events, mask) ELSE BitAnd(events, BitNot(mask))

\* for (auto const& x : msgData), from the i-th name on
RECURSIVE property_loop(_, _, _)
property_loop(events, msgData, i) ==
    IF i > Len(NameOrder) THEN events
    ELSE LET name == NameOrder[i] IN
         IF name \notin DOMAIN msgData THEN property_loop(events, msgData, i + 1)
         ELSE IF name \notin DOMAIN event_lookup
         THEN property_loop(events, msgData, i + 1)
         ELSE property_loop(property_apply(events, event_lookup[name], msgData[name]),
                            msgData, i + 1)

\* hiomap_handle_property_update rebuilding the bitmask from the message alone
hiomap_handle_property_update_from_zero(events, msgData) ==
    LET e == property_loop(0, msgData, 1)
    IN NotifyRet(e, <<HostCmd(e)>>)

hiomap_handle_property_update(events, msgData) ==
    LET e == property_loop(events, msgData, 1)
    IN NotifyRet(e, <<HostCmd(e)>>)

\* hiomap_handle_signal_v2 assigning the bit instead of or-ing it in
hiomap_handle_signal_v2_assigns(events, name) ==
    LET e == event_lookup[name]
    IN NotifyRet(e, <<HostCmd(e)>>)

hiomap_handle_signal_v2(events, name) ==
    LET e == BitOr(events, event_lookup[name])
    IN NotifyRet(e, <<HostCmd(e)>>)

\* the two signals matched at registration
SignalNames == {"ProtocolReset", "WindowReset"}

(***************************************************************************)
(* Inputs                                                                  *)
(***************************************************************************)
SeqBytes == 0..MaxSeq
CmdBytes == (0..MaxCmd) \cup {255}
\* first payload bytes tried with Acknowledge in the full model
AckBytes == {0, 1, 2, 3, 60, 64, 130, 195, 255}

Pad(n) == [i \in 1..n |-> 0]

Request(cmd, s, d0, n) ==
    [data_len |-> n, buf |-> <<cmd, s, d0>> \o Pad(MaxLen - 3)]

Requests ==
    {Request(c, s, 0, n) : c \in CmdBytes, s \in SeqBytes, n \in 0..MaxLen}
    \cup {Request(HIOMAP_C_ACK, s, a, n) : s \in SeqBytes, a \in AckBytes, n \in 0..MaxLen}

\* Acknowledge envelopes with every first payload byte
AckRequests ==
    {Request(HIOMAP_C_ACK, 0, a, n) : a \in 0..255, n \in 2..3}

PropertyNames == {NameOrder[i] : i \in 1..Len(NameOrder)}
PropertyMessages == UNION {[S -> BOOLEAN] : S \in SUBSET PropertyNames}

(***************************************************************************)
(* State machine.  The provider runs inside the single-threaded ipmid      *)
(* event loop: a callback (the command handler or a D-Bus match) runs to   *)
(* its return before the loop takes the next event.  "last" holds what the *)
(* running callback was given and produced until the callback returns.     *)
(***************************************************************************)
NoRequest == Request(0, 0, 0, 0)
NoDispatch == DispatchRet(IPMI_CC_OK, 0, 0, 0, <<>>, 0, <<>>, 0)

Observation(op, request, rc, msgData, name, r, sent) ==
    [op |-> op, request |-> request, rc |-> rc, msgData |-> msgData, name |-> name,
     old_seq |-> seq, old_events |-> bmc_events,
     cc |-> r.cc, data_len |-> r.data_len, rpcs |-> r.rpcs, handler |-> r.handler,
     resp |-> r.resp, written |-> r.written, sent |-> sent, log |-> <<>>]

Idle ==
    [op |-> "idle", request |-> NoRequest, rc |-> CallReturns, msgData |-> <<>>,
     name |-> "", old_seq |-> 0, old_events |-> 0, cc |-> IPMI_CC_OK,
     data_len |-> 0, rpcs |-> <<>>, handler |-> 0, resp |-> <<>>, written |-> 0,
     sent |-> <<>>, log |-> <<>>]

\* the last callback was a command that reached its handler and did not succeed
FailedCommand(obs) ==
    obs.op = "dispatch" /\ obs.handler # 0 /\ obs.cc # IPMI_CC_OK

NoFailure == [failed |-> FALSE, req_seq |-> 0]

\* no command dispatched yet; -1 stands for "no envelope has passed the checks"
FreshSession == [fresh |-> TRUE, acc_seq |-> -1]

\* the session history after the callback observed in obs
SessionAfter(obs, h) ==
    IF obs.op # "dispatch" THEN h
    ELSE [fresh |-> FALSE,
          acc_seq |-> IF obs.handler # 0 THEN obs.request.buf[2] ELSE h.acc_seq]

\* ipmi_hiomap_event_response: the lines it logs; it touches no state
ipmi_hiomap_event_response(cmd, status) ==
    IF ~status THEN <<"Failed to deliver host command">> ELSE <<>>

\* bit i of byte x
Bit(x, i) == (x \div (2 ^ i)) % 2 = 1

EventBit ==
    [n \in {"DaemonReady", "FlashControlLost", "WindowReset", "ProtocolReset"} |->
        CASE n = "DaemonReady" -> 7
          [] n = "FlashControlLost" -> 6
          [] n = "WindowReset" -> 1
          [] n = "ProtocolReset" -> 0]

\* The event loop of spec section 5: the command channel delivers one
\* command at a time and backend notifications arrive through the same loop,
\* so a callback starts only when no callback is running.
EventLoopFree == last.op = "idle"

\* the byte whose set bits are the bit numbers in S
MaskOf(S) ==
    LET w(i) == IF i \in S THEN 2 ^ i ELSE 0
    IN w(0) + w(1) + w(2) + w(3) + w(4) + w(5) + w(6) + w(7)

\* the update of an Acknowledge whose backend call succeeded: the bits of
\* its payload byte are cleared
ApplyAck(S, acked) == {i \in S : ~Bit(acked, i)}

\* the update of a property notification: the bit of every table name with
\* value true is set, the bit of every table name with value false cleared
ApplyProperty(S, msgData) ==
    LET named == DOMAIN msgData \cap DOMAIN EventBit
    IN (S \cup {EventBit[n] : n \in {m \in named : msgData[m]}})
           \ {EventBit[n] : n \in {m \in named : ~msgData[m]}}

\* the update of a signal: the bit of its name is set
ApplySignal(S, name) == S \cup {EventBit[name]}

\* the updates applied so far, after a command that returned cc
AppliedAfterDispatch(S, request, cc) ==
    IF request.data_len >= 3 /\ request.buf[1] = HIOMAP_C_ACK /\ cc = IPMI_CC_OK
    THEN ApplyAck(S, request.buf[3])
    ELSE S

\* struct hiomap* ctx = new hiomap(): seq and bmc_events are zero-initialised
Init ==
    /\ seq = 0
    /\ bmc_events = 0
    /\ last = Idle
    /\ prev = NoFailure
    /\ session = FreshSession
    /\ handed = FALSE
    /\ applied = {}

Context == [seq |-> seq, bmc_events |-> bmc_events]

\* the outcomes the backend can give to this call: drawn only if a call is made
OutcomesFor(request) ==
    IF hiomap_dispatch(Context, request, CallReturns).rpcs # <<>>
    THEN Outcomes ELSE {CallReturns}

\* one IPMI command delivered to the registered callback
Dispatch(request) ==
    /\ EventLoopFree
    /\ \E rc \in OutcomesFor(request) :
        \E r \in {hiomap_dispatch(Context, request, rc)} :
            /\ seq' = r.seq
            /\ bmc_events' = r.bmc_events
            /\ last' = Observation("dispatch", request, rc, <<>>, "", r, <<>>)
            /\ applied' = AppliedAfterDispatch(applied, request, r.cc)
    /\ UNCHANGED <<prev, session, handed>>

\* one PropertiesChanged message on the V2 interface
PropertyUpdate(msgData) ==
    /\ EventLoopFree
    /\ applied' = ApplyProperty(applied, msgData)
    /\ \E n \in {hiomap_handle_property_update(bmc_events, msgData)} :
            /\ bmc_events' = n.bmc_events
            /\ last' = Observation("property", NoRequest, CallReturns, msgData, "",
                                   NoDispatch, n.sent)
    /\ handed' = TRUE
    /\ UNCHANGED <<seq, prev, session>>

\* one ProtocolReset or WindowReset signal
Signal(name) ==
    /\ EventLoopFree
    /\ applied' = ApplySignal(applied, name)
    /\ \E n \in {hiomap_handle_signal_v2(bmc_events, name)} :
            /\ bmc_events' = n.bmc_events
            /\ last' = Observation("signal", NoRequest, CallReturns, <<>>, name,
                                   NoDispatch, n.sent)
    /\ handed' = TRUE
    /\ UNCHANGED <<seq, prev, session>>

\* the callback returns to the event loop, which takes the response
Return ==
    /\ last.op # "idle"
    /\ prev' = IF FailedCommand(last)
               THEN [failed |-> TRUE, req_seq |-> last.request.buf[2]]
               ELSE NoFailure
    /\ session' = SessionAfter(last, session)
    /\ last' = Idle
    /\ UNCHANGED <<seq, bmc_events, handed, applied>>

\* The host interface reports whether an event command was delivered.  The
\* queue of commands is host-ipmid's: the provider keeps no record of what is
\* outstanding, every notification hands over one more command with the
\* callback, and the callback can run from the first hand-over on.
DeliveryResult(status) ==
    /\ EventLoopFree
    /\ handed
    /\ last' = [Idle EXCEPT !.op = "delivery", !.old_seq = seq,
                            !.old_events = bmc_events,
                            !.log = ipmi_hiomap_event_response(
                                        IPMI_CMD_HIOMAP_EVENT, status)]
    /\ UNCHANGED <<seq, bmc_events, prev, session, handed, applied>>

\* hiomap_xlate_errno applied to one cause
Translate(err) ==
    /\ EventLoopFree
    /\ last' = [Idle EXCEPT !.op = "xlate", !.rc = [threw |-> TRUE, err |-> err],
                            !.cc = hiomap_xlate_errno(err),
                            !.old_seq = seq, !.old_events = bmc_events]
    /\ UNCHANGED <<seq, bmc_events, prev, session, handed, applied>>

Next ==
    \/ \E request \in Requests : Dispatch(request)
    \/ \E msgData \in PropertyMessages : PropertyUpdate(msgData)
    \/ \E name \in SignalNames : Signal(name)
    \/ \E status \in BOOLEAN : DeliveryResult(status)
    \/ Return

Spec == Init /\ [][Next]_vars

\* the same machine fed Acknowledge envelopes carrying every byte value
NextAck ==
    \/ \E request \in AckRequests : Dispatch(request)
    \/ \E msgData \in PropertyMessages : PropertyUpdate(msgData)
    \/ \E name \in SignalNames : Signal(name)
    \/ \E status \in BOOLEAN : DeliveryResult(status)
    \/ Return

SpecAck == Init /\ [][NextAck]_vars

\* the causes the translator is applied to
XlateInputs == (-2)..MaxErrno

\* the translator alone, applied to every cause of XlateInputs
NextXlate ==
    \/ \E err \in XlateInputs : Translate(err)
    \/ Return

SpecXlate == Init /\ [][NextXlate]_vars

(***************************************************************************)
(* Properties                                                              *)
(***************************************************************************)
IsDispatch == last.op = "dispatch"
ReqLen == last.request.data_len
ReqCmd == last.request.buf[1]
ReqSeq == last.request.buf[2]
ReqPayloadLen == last.request.data_len - 2
ReqAcked == last.request.buf[3]

VersionedIds == {3, 4, 5, 6, 7, 8, 10}
UnversionedIds == {1, 2, 9}

\* the call changed nothing: no handler, no backend call, context as before
Untouched ==
    /\ last.handler = 0
    /\ last.rpcs = <<>>
    /\ seq = last.old_seq
    /\ bmc_events = last.old_events

\* the envelope passes the frame check, the command lookup and the sequence check
Accepted ==
    /\ IsDispatch
    /\ ReqLen >= 2
    /\ ReqCmd \in 1..10
    /\ (ReqCmd \in UnversionedIds \/ ReqSeq # last.old_seq)

\* C1: a well-framed versioned command (ids 3, 4, 5, 6, 7, 8, 10) whose sequence
\* byte equals the stored sequence returns "invalid field in request" with
\* response length 0, runs no handler, issues no backend call and leaves the
\* stored sequence and the event bitmask as they were.
C1_DuplicateRejected ==
    (IsDispatch /\ ReqLen >= 2 /\ ReqCmd \in VersionedIds /\ ReqSeq = last.old_seq)
        => /\ last.cc = IPMI_CC_INVALID_FIELD_REQUEST
           /\ last.data_len = 0
           /\ Untouched

C1_Witness ==
    /\ IsDispatch /\ ReqLen = MaxLen /\ ReqCmd = 10 /\ ReqSeq = last.old_seq
    /\ last.old_seq # 0 /\ last.old_events # 0
    /\ last.cc = IPMI_CC_INVALID_FIELD_REQUEST

\* C2: Reset, Get-Info and Acknowledge are never answered "invalid field in
\* request": a well-framed envelope of one of them reaches its handler also
\* when its sequence byte equals the stored sequence.
C2_UnversionedNeverRejected ==
    (IsDispatch /\ ReqCmd \in UnversionedIds)
        => /\ last.cc # IPMI_CC_INVALID_FIELD_REQUEST
           /\ (ReqLen >= 2 => last.handler = ReqCmd)

C2_Witness ==
    /\ IsDispatch /\ ReqLen >= 2 /\ ReqCmd = 9 /\ ReqSeq = last.old_seq
    /\ last.old_seq # 0 /\ last.old_events # 0
    /\ last.handler = 9

\* C3: after an envelope that passes the frame check, the command lookup and the
\* sequence check, the stored sequence is the envelope's sequence byte, whether
\* the handler succeeded, rejected a short payload or saw the backend fail; and
\* a versioned command that directly follows a failed command and carries the
\* same sequence byte is rejected.
C3_SequenceCommitted ==
    /\ Accepted => (seq = ReqSeq /\ last.handler = ReqCmd)
    /\ (prev.failed /\ IsDispatch /\ ReqLen >= 2 /\ ReqCmd \in VersionedIds
            /\ ReqSeq = prev.req_seq)
        => (last.cc = IPMI_CC_INVALID_FIELD_REQUEST /\ seq = ReqSeq)

C3_Witness ==
    /\ prev.failed /\ IsDispatch /\ ReqLen >= 2 /\ ReqCmd \in VersionedIds
    /\ ReqSeq = prev.req_seq /\ ReqSeq # 0
    /\ last.cc = IPMI_CC_INVALID_FIELD_REQUEST

\* C4: Acknowledge with payload byte A: when the backend call succeeds the
\* event bitmask is the previous one with exactly the bits of A cleared; when
\* the backend call fails or the payload is shorter than one byte the bitmask
\* is unchanged.
C4_AckClearsExactly ==
    (IsDispatch /\ ReqLen >= 2 /\ ReqCmd = 9)
        => IF ReqPayloadLen >= 1 /\ ~last.rc.threw
           THEN \A i \in 0..7 :
                   Bit(bmc_events, i) = (Bit(last.old_events, i) /\ ~Bit(ReqAcked, i))
           ELSE bmc_events = last.old_events

C4_Witness ==
    /\ IsDispatch /\ ReqCmd = 9 /\ ReqPayloadLen = 1 /\ ~last.rc.threw
    /\ last.old_events = 195 /\ ReqAcked = 134 /\ bmc_events = 65

\* C5: a property notification sets the bit of every table name it carries
\* with value true and clears it for value false (DaemonReady bit 7,
\* FlashControlLost bit 6, WindowReset bit 1, ProtocolReset bit 0), leaves
\* every other bit alone, ignores names outside the table, and pushes
\* exactly one event upstream whose value is the resulting bitmask.
NamedBits(names) == {EventBit[n] : n \in names \cap DOMAIN EventBit}

C5_PropertyUpdate ==
    last.op = "property"
        => /\ \A n \in DOMAIN last.msgData \cap DOMAIN EventBit :
                 Bit(bmc_events, EventBit[n]) = last.msgData[n]
           /\ \A i \in (0..7) \ NamedBits(DOMAIN last.msgData) :
                 Bit(bmc_events, i) = Bit(last.old_events, i)
           /\ last.sent = <<[cmd |-> IPMI_CMD_HIOMAP_EVENT, data |-> bmc_events]>>
           /\ seq = last.old_seq

C5_Witness ==
    /\ last.op = "property"
    /\ DOMAIN last.msgData = {"FlashControlLost", "WindowReset", "Unknown"}
    /\ last.msgData["FlashControlLost"] = FALSE
    /\ last.msgData["WindowReset"] = TRUE
    /\ last.old_events = 192
    /\ bmc_events = 130
    /\ Len(last.sent) = 1

\* C6: a WindowReset signal leaves bit 1 set and a ProtocolReset signal leaves
\* bit 0 set whatever the bitmask was, no bit is cleared, and one event
\* carrying the new bitmask is pushed upstream.
C6_SignalSets ==
    last.op = "signal"
        => /\ (last.name = "WindowReset" => Bit(bmc_events, 1))
           /\ (last.name = "ProtocolReset" => Bit(bmc_events, 0))
           /\ \A i \in 0..7 : Bit(last.old_events, i) => Bit(bmc_events, i)
           /\ last.sent = <<[cmd |-> IPMI_CMD_HIOMAP_EVENT, data |-> bmc_events]>>

C6_Witness ==
    /\ last.op = "signal" /\ last.name = "WindowReset"
    /\ last.old_events = 192 /\ bmc_events = 194

\* C7: when the backend call of a handler fails, whatever the cause, the
\* dispatcher returns response length 0 and the status the error translator
\* gives for the cause, which is never the success status.
C7_BackendFailureSurfaces ==
    (IsDispatch /\ last.rpcs # <<>> /\ last.rc.threw)
        => /\ last.data_len = 0
           /\ last.cc = hiomap_xlate_errno(last.rc.err)
           /\ last.cc # IPMI_CC_OK
           /\ last.resp = <<>>

C7_Witness ==
    /\ IsDispatch /\ ReqCmd = 4 /\ ReqLen = MaxLen /\ last.rc.threw
    /\ last.rc.err = ETIMEDOUT /\ Len(last.rpcs) = 1
    /\ last.cc = IPMI_CC_TIMEOUT /\ last.data_len = 0

\* C8, as amended: a command that needs a payload (Get-Info 1, Close window 1,
\* Acknowledge 1, Create read/write window 4, Mark dirty 4, Erase 4 bytes),
\* in an envelope that passes the sequence check, returns "request too
\* short" with response length 0 and no backend call when its payload is
\* shorter than the minimum; with a payload of exactly the minimum it makes
\* its backend call and succeeds when the call succeeds.
MinPayload ==
    [c \in {2, 4, 5, 6, 7, 9, 10} |-> IF c \in {2, 5, 9} THEN 1 ELSE 4]

C8_PayloadLength ==
    (Accepted /\ ReqCmd \in DOMAIN MinPayload)
        => /\ ReqPayloadLen < MinPayload[ReqCmd]
                => /\ last.cc = IPMI_CC_REQ_DATA_LEN_INVALID
                   /\ last.data_len = 0
                   /\ last.rpcs = <<>>
           /\ ReqPayloadLen = MinPayload[ReqCmd]
                => /\ Len(last.rpcs) = 1
                   /\ (~last.rc.threw => last.cc = IPMI_CC_OK)

\* C8, as stated: the same for every well-framed envelope of these commands,
\* also one whose sequence byte repeats the stored sequence.
C8_AsClaimed ==
    (IsDispatch /\ ReqLen >= 2 /\ ReqCmd \in DOMAIN MinPayload)
        => /\ ReqPayloadLen < MinPayload[ReqCmd]
                => /\ last.cc = IPMI_CC_REQ_DATA_LEN_INVALID
                   /\ last.data_len = 0
                   /\ last.rpcs = <<>>
           /\ ReqPayloadLen = MinPayload[ReqCmd]
                => /\ Len(last.rpcs) = 1
                   /\ (~last.rc.threw => last.cc = IPMI_CC_OK)

C8_Witness ==
    /\ Accepted /\ ReqCmd = 6 /\ ReqPayloadLen = 4 /\ ~last.rc.threw
    /\ Len(last.rpcs) = 1 /\ last.cc = IPMI_CC_OK

\* C9: a well-framed envelope whose command id is 0 or above 10 returns
\* "parameter out of range" with response length 0 whatever its sequence
\* byte, with no backend call and the context unchanged.
C9_UnknownCommand ==
    (IsDispatch /\ ReqLen >= 2 /\ (ReqCmd = 0 \/ ReqCmd > 10))
        => /\ last.cc = IPMI_CC_PARM_OUT_OF_RANGE
           /\ last.data_len = 0
           /\ Untouched

C9_Witness ==
    /\ IsDispatch /\ ReqLen >= 2 /\ ReqCmd = 11 /\ ReqSeq = last.old_seq
    /\ last.old_seq # 0 /\ last.cc = IPMI_CC_PARM_OUT_OF_RANGE

\* C10: an envelope shorter than 2 bytes returns "request too short" with
\* response length 0 whatever the buffer holds where the command id and the
\* sequence would be, with no backend call and the context unchanged.
C10_FrameCheck ==
    (IsDispatch /\ ReqLen < 2)
        => /\ last.cc = IPMI_CC_REQ_DATA_LEN_INVALID
           /\ last.data_len = 0
           /\ Untouched

C10_Witness ==
    /\ IsDispatch /\ ReqLen = 1 /\ ReqCmd = 0 /\ ReqSeq = last.old_seq
    /\ last.old_events # 0 /\ last.cc = IPMI_CC_REQ_DATA_LEN_INVALID

\* C11: every return of the dispatcher with a status other than OK has
\* response length 0 and has written no response header, whether the error
\* comes from the frame check, the command lookup, the sequence check, a
\* handler's payload-length check or a backend failure.
C11_ErrorsCarryNothing ==
    (IsDispatch /\ last.cc # IPMI_CC_OK)
        => (last.data_len = 0 /\ last.resp = <<>>)

C11_Witness ==
    /\ IsDispatch /\ ReqCmd = 5 /\ ReqLen = 3 /\ last.rc.threw
    /\ Len(last.rpcs) = 1 /\ last.cc = IPMI_CC_BUSY
    /\ last.data_len = 0 /\ last.resp = <<>>

\* C12: every OK return carries the request's command id in response byte 0
\* and the stored sequence, equal to the request's sequence byte, in byte 1,
\* and has response length 2 plus the command's reply size (Reset 0,
\* Get-Info 4, Get flash geometry 4, Create read window 6, Close window 0,
\* Create write window 6, Mark dirty 0, Flush 0, Acknowledge 0, Erase 0),
\* whatever the length of the request.
ReplySize ==
    [c \in 1..10 |-> IF c \in {2, 3} THEN 4 ELSE IF c \in {4, 6} THEN 6 ELSE 0]

C12_ResponseFraming ==
    (IsDispatch /\ last.cc = IPMI_CC_OK)
        => /\ ReqCmd \in 1..10
           /\ last.resp = <<ReqCmd, seq>>
           /\ seq = ReqSeq
           /\ last.data_len = 2 + ReplySize[ReqCmd]

C12_Witness ==
    /\ IsDispatch /\ last.cc = IPMI_CC_OK /\ ReqCmd = 8 /\ ReqLen = MaxLen
    /\ ReqSeq # 0 /\ last.resp = <<8, ReqSeq>> /\ last.data_len = 2

\* C13, as amended: Reset and Get-Info address their backend call to the base
\* interface; every other command addresses the versioned extension.
C13_Interfaces ==
    IsDispatch
        => \A k \in 1..Len(last.rpcs) :
              last.rpcs[k].iface =
                  IF ReqCmd \in {1, 2} THEN HIOMAPD_IFACE ELSE HIOMAPD_IFACE_V2

\* C13, as stated: Reset alone addresses the base interface.
C13_AsClaimed ==
    IsDispatch
        => \A k \in 1..Len(last.rpcs) :
              last.rpcs[k].iface =
                  IF ReqCmd = 1 THEN HIOMAPD_IFACE ELSE HIOMAPD_IFACE_V2

C13_Witness ==
    /\ IsDispatch /\ ReqCmd = 2 /\ Len(last.rpcs) = 1
    /\ last.rpcs[1].method = "GetInfo"
    /\ last.rpcs[1].iface = "xyz.openbmc_project.Hiomapd.Protocol"

\* C14: a dispatcher call issues exactly one backend call when the envelope
\* passes the frame check, the command lookup, the sequence check and the
\* handler's payload-length check, and none otherwise; a backend failure is
\* not followed by another call.
LongEnough ==
    ReqCmd \in DOMAIN MinPayload => ReqPayloadLen >= MinPayload[ReqCmd]

C14_OneBackendCall ==
    IsDispatch
        => Len(last.rpcs) = IF Accepted /\ LongEnough THEN 1 ELSE 0

C14_Witness ==
    /\ IsDispatch /\ ReqCmd = 7 /\ ReqPayloadLen = 4 /\ last.rc.threw
    /\ last.cc = IPMI_CC_UNSPECIFIED_ERROR /\ Len(last.rpcs) = 1

\* C15: mutations of the session state by command dispatch and by the
\* property and signal handlers are serialized.  While a callback runs (a
\* hiomap_dispatch call between its start and its return, its backend call
\* included, or a notification handler) the only step is its return, so no
\* notification handler runs inside a dispatch; and after every step the
\* event bitmask equals the result of applying the Acknowledge clears and the
\* notification updates one after the other in the order the callbacks ran:
\* no update is lost.
C15_Serialized ==
    [][/\ (last.op \in {"dispatch", "property", "signal"} => last'.op = "idle")
       /\ bmc_events' = MaskOf(applied')]_vars

C15_Witness ==
    /\ IsDispatch /\ ReqCmd = 9 /\ last.cc = IPMI_CC_OK /\ Len(last.rpcs) = 1
    /\ ~session.fresh /\ handed
    /\ last.old_events = 195 /\ ReqAcked = 130
    /\ bmc_events = 65 /\ applied = {0, 6}

\* the sequence check turned the envelope away
SequenceRejected ==
    IsDispatch /\ last.handler = 0 /\ last.cc = IPMI_CC_INVALID_FIELD_REQUEST

\* a well-framed envelope of a versioned command
WellFramedVersioned == IsDispatch /\ ReqLen >= 2 /\ ReqCmd \in VersionedIds

\* C16: for a versioned command (ids 3, 4, 5, 6, 7, 8, 10) in a well-framed
\* envelope, the sequence check rejects if and only if the envelope's
\* sequence byte equals the sequence byte of the most recent envelope that
\* passed the frame check, the command lookup and the sequence check (of any
\* command, the unversioned ones included).  Before any envelope has passed
\* there is no such byte, so the claim has the check accept.
C16_AsClaimed ==
    WellFramedVersioned
        => (SequenceRejected
               <=> (session.acc_seq # -1 /\ ReqSeq = session.acc_seq))

\* Once an envelope has passed the checks, the stored sequence is its
\* sequence byte, and the sequence check rejects exactly its repetition; the
\* equivalence of C16 fails only while no envelope has passed and the stored
\* sequence is still the 0 of construction.
C16_AfterFirstAccepted ==
    /\ session.acc_seq # -1 => seq = session.acc_seq \/ (IsDispatch /\ last.handler # 0)
    /\ (WellFramedVersioned /\ session.acc_seq # -1)
          => (SequenceRejected <=> ReqSeq = session.acc_seq)
    /\ (WellFramedVersioned /\ session.acc_seq = -1)
          => (SequenceRejected <=> ReqSeq = 0)

\* the status hiomap_xlate_errno is to give: success for cause 0, the listed
\* status for each listed cause, "unspecified error" for every other cause
ListedStatus(err) ==
    CASE err = 0 -> IPMI_CC_OK
      [] err = EBUSY -> IPMI_CC_BUSY
      [] err = ENOTSUP -> IPMI_CC_INVALID
      [] err = ETIMEDOUT -> IPMI_CC_TIMEOUT
      [] err = ENOSPC -> IPMI_CC_OUT_OF_SPACE
      [] err = EINVAL -> IPMI_CC_PARM_OUT_OF_RANGE
      [] err = ENODEV -> IPMI_CC_SENSOR_INVALID
      [] err \in {EPERM, EACCES} -> IPMI_CC_INSUFFICIENT_PRIVILEGE
      [] OTHER -> IPMI_CC_UNSPECIFIED_ERROR

\* C17: hiomap_xlate_errno returns, for every cause, the status of the first
\* table entry whose cause equals the input, or "unspecified error" when no
\* entry matches: cause 0 maps to success, busy, unsupported, timed out, out
\* of space, invalid argument, no such device and permission denied / access
\* denied map to their listed statuses, every other cause to "unspecified
\* error".
C17_Translation ==
    last.op = "xlate" => last.cc = ListedStatus(last.rc.err)

\* C17 as claimed: every cause other than the eight listed ones, cause 0
\* included, maps to "unspecified error".
C17_AsClaimed ==
    (last.op = "xlate"
        /\ last.rc.err \notin {EBUSY, ENOTSUP, ETIMEDOUT, ENOSPC, EINVAL,
                               ENODEV, EPERM, EACCES})
        => last.cc = IPMI_CC_UNSPECIFIED_ERROR

C17_Witness ==
    /\ last.op = "xlate" /\ last.rc.err = MaxErrno
    /\ last.cc = IPMI_CC_UNSPECIFIED_ERROR

\* C18: in a fresh session, before any command has been dispatched, a
\* well-framed versioned command (ids 3, 4, 5, 6, 7, 8, 10) passes the
\* sequence check whatever its sequence byte.
C18_AsClaimed ==
    (session.fresh /\ WellFramedVersioned) => ~SequenceRejected

\* C19: in every reachable state the event bitmask holds only bits of the
\* event table (bmc_events AND NOT 0xC3 = 0: bits 7, 6, 1 and 0), and so
\* does every value pushed upstream.
C19_OnlyTableBits ==
    /\ BitAnd(bmc_events, BitNot(195)) = 0
    /\ \A k \in 1..Len(last.sent) : BitAnd(last.sent[k].data, BitNot(195)) = 0

C19_Witness ==
    /\ last.op = "signal" /\ last.old_events = 194 /\ last.name = "ProtocolReset"
    /\ bmc_events = 195 /\ Len(last.sent) = 1 /\ last.sent[1].data = 195

\* C20: a pending event bit is never lost: a step clears a set bit of the
\* event bitmask only if it is an Acknowledge whose payload contains the bit
\* and whose backend call succeeded, or a property notification carrying the
\* bit's name with value false; no other command, no signal, no property
\* notification for other names and no delivery result clears it.
C20_PendingBitKept ==
    [][\A n \in DOMAIN EventBit :
          (Bit(bmc_events, EventBit[n]) /\ ~Bit(bmc_events', EventBit[n]))
              => \/ /\ last'.op = "dispatch"
                    /\ last'.request.buf[1] = HIOMAP_C_ACK
                    /\ last'.request.data_len >= 3
                    /\ Len(last'.rpcs) = 1
                    /\ ~last'.rc.threw
                    /\ last'.cc = IPMI_CC_OK
                    /\ Bit(last'.request.buf[3], EventBit[n])
                 \/ /\ last'.op = "property"
                    /\ n \in DOMAIN last'.msgData
                    /\ ~last'.msgData[n]]_vars

C20_Witness ==
    /\ IsDispatch /\ ReqCmd = 9 /\ ReqPayloadLen >= 1 /\ ~last.rc.threw
    /\ last.old_events = 195 /\ ReqAcked = 64 /\ bmc_events = 131

====
